---------------------------- MODULE Spec2Model ----------------------------
(***************************************************************************)
(* Model of catan.py: a Telegram bot that counts Catan wins in a SQLite    *)
(* table `winners` and answers /start and /stats.                          *)
(*                                                                         *)
(* Text is modelled as a sequence of one-character strings, so that        *)
(* slicing (caption[offset : offset + length]) and lstrip("@") are         *)
(* computed the way Python computes them.                                  *)
(***************************************************************************)
EXTENDS Integers, Sequences, FiniteSets, TLC

VARIABLES
    hasTable,     \* the database file holds the table `winners`
    winners,      \* the committed rows of `winners`, in rowid (insertion) order
    pc,           \* the bot process: "stopped", "init", "idle", "dispatch",
                  \* "handled"
    update,       \* the update the dispatcher is processing, or NoUpdate
    replies,      \* reply_text calls made for the current update, in order
    failure,      \* where the store fails while the current update is handled
    raised,       \* the exception that left the handler of the current update
    leaderboard,  \* the rows the last get_leaderboard() returned
    deliveries,   \* how many times the current update has been delivered
    calls,        \* per username, the increment_win_count calls that returned
    started,      \* per username, the increment_win_count calls that began
    conn,         \* per concurrent caller, its position in increment_win_count
    lock          \* the caller holding SQLite's write lock, or NoProc

vars == <<hasTable, winners, pc, update, failure, replies, raised, leaderboard,
          deliveries, calls, started, conn, lock>>

-----------------------------------------------------------------------------
(* Bounds of the model. *)

\* The most caption entities one message carries.
MaxEntities == 2

\* The most wins recorded in the table before message updates stop arriving.
MaxWins == 2

\* The most times the transport delivers one update.
MaxDeliveries == 2

\* The most calls of increment_win_count the concurrent callers begin.
MaxCalls == 4

-----------------------------------------------------------------------------
(* Text. *)

Min(a, b) == IF a < b THEN a ELSE b

\* Code points of the characters the captions use (SQLite compares TEXT
\* with the BINARY collation, Python compares str by code point).
Ord(c) ==
    CASE c = " " -> 32 [] c = "!" -> 33 [] c = "@" -> 64 [] c = "A" -> 65
      [] c = "G" -> 71 [] c = "a" -> 97 [] c = "c" -> 99 [] c = "e" -> 101
      [] c = "g" -> 103 [] c = "i" -> 105 [] c = "l" -> 108 [] c = "m" -> 109
      [] c = "r" -> 114 [] c = "t" -> 116

\* s < t for two texts, character by character, a proper prefix first.
RECURSIVE TextLess(_, _)
TextLess(s, t) ==
    IF t = <<>> THEN FALSE
    ELSE IF s = <<>> THEN TRUE
    ELSE IF Head(s) # Head(t) THEN Ord(Head(s)) < Ord(Head(t))
    ELSE TextLess(Tail(s), Tail(t))

\* Python's s[lo:hi] for 0 <= lo, 0 <= hi: the indices are clamped to the
\* text, an empty or out-of-range slice is the empty text, nothing raises.
SliceOffByOne(s, lo, hi) == SubSeq(s, lo + 2, Min(hi + 1, Len(s)))
Slice(s, lo, hi) == SubSeq(s, lo + 1, Min(hi, Len(s)))

\* Python's s.lstrip("@"): every leading "@" is removed.
RECURSIVE lstrip(_)
lstrip(s) ==
    IF s # <<>> /\ Head(s) = "@" THEN lstrip(Tail(s)) ELSE s


-----------------------------------------------------------------------------
(* The inbound updates. *)

GreatGame ==
    <<"G", "r", "e", "a", "t", " ", "g", "a", "m", "e", " ",
      "@", "a", "l", "i", "c", "e", "!">>

DoubleSigil == <<"@", "@", "a">>

UpperCase == <<"@", "A">>

Captions == {GreatGame, DoubleSigil, UpperCase}

Mention(o, l) == [type |-> "mention", offset |-> o, length |-> l]

\* The entities a caption may carry: for the short captions a mention at
\* every offset and of every length up to the caption's length (spans that
\* leave the caption included), for GreatGame the span of "@alice" and the
\* span one character to its right, and one entity that is no mention.
EntitiesOf(c) ==
    (IF c = GreatGame
        THEN {Mention(11, 6), Mention(12, 6)}
        ELSE {Mention(o, l) : o \in 0..Len(c), l \in 0..Len(c)})
    \cup {[type |-> "hashtag", offset |-> 0, length |-> 1]}

EntityLists(c) == UNION {[1..n -> EntitiesOf(c)] : n \in 0..MaxEntities}

Messages ==
    UNION {{[kind |-> "message", photo |-> p, caption |-> c,
             caption_entities |-> es] : p \in BOOLEAN, es \in EntityLists(c)}
           : c \in Captions}

Commands == {[kind |-> "start"], [kind |-> "stats"]}

NoUpdate == [kind |-> "none"]

\* The text an entity spans (message_handler's mention_text).
MentionText(caption, entity) ==
    Slice(caption, entity.offset, entity.offset + entity.length)

\* Every username a message of the model can name.
Usernames ==
    UNION {{lstrip(MentionText(c, e)) : e \in EntitiesOf(c)} : c \in Captions}

-----------------------------------------------------------------------------
(* The table `winners` and the SQL statements run on it. *)

Row(u, w) == [username |-> u, wins |-> w]

\* SELECT wins FROM winners WHERE username = ? ; fetchone():
\* <<>> for None, the one-column tuple <<wins>> for a row.
RECURSIVE SelectWins(_, _)
SelectWins(rows, username) ==
    IF rows = <<>> THEN <<>>
    ELSE IF Head(rows).username = username THEN <<Head(rows).wins>>
    ELSE SelectWins(Tail(rows), username)

\* INSERT INTO winners (username, wins) VALUES (?, ?): the PRIMARY KEY on
\* username refuses a second row for a username (sqlite3.IntegrityError).
Insert_default(rows, username, wins) ==
    IF \E i \in 1..Len(rows) : rows[i].username = username
        THEN [rows |-> rows, error |-> "IntegrityError"]
        ELSE [rows |-> Append(rows, Row(username, 0)), error |-> "none"]
Insert_checked(rows, username, wins) ==
    IF username = <<>> \/ \E i \in 1..Len(rows) : rows[i].username = username
        THEN [rows |-> rows, error |-> "IntegrityError"]
        ELSE [rows |-> Append(rows, Row(username, wins)), error |-> "none"]
Insert(rows, username, wins) ==
    IF \E i \in 1..Len(rows) : rows[i].username = username
        THEN [rows |-> rows, error |-> "IntegrityError"]
        ELSE [rows |-> Append(rows, Row(username, wins)), error |-> "none"]

\* UPDATE winners SET wins = ? WHERE username = ?
Update_ignored(rows, wins, username) == [rows |-> rows, error |-> "none"]
Update(rows, wins, username) ==
    [rows |-> [i \in 1..Len(rows) |->
                  IF rows[i].username = username
                      THEN Row(username, wins) ELSE rows[i]],
     error |-> "none"]

\* The count stored for a username, 0 when it has no row.
Get(rows, username) ==
    LET row == SelectWins(rows, username) IN IF row = <<>> THEN 0 ELSE row[1]

RECURSIVE TotalWins(_)
TotalWins(rows) ==
    IF rows = <<>> THEN 0 ELSE Head(rows).wins + TotalWins(Tail(rows))

\* Where a statement of a store call may fail (sqlite3.OperationalError):
\* opening the file, the SELECT, the INSERT or UPDATE, the COMMIT.
Faults == {"none", "connect", "select", "write", "commit"}

\* CREATE TABLE IF NOT EXISTS winners (...): the rows of an existing table
\* are kept, a missing table is created empty.
init_db_recreate(exists, rows) == [hasTable |-> TRUE, rows |-> <<>>]
init_db(exists, rows) ==
    [hasTable |-> TRUE, rows |-> IF exists THEN rows ELSE <<>>]

\* new_count = row[0] + 1
new_count_same(row) == row[1]
new_count(row) == row[1] + 1

\* conn.commit() with a failing COMMIT: the transaction is rolled back and
\* the committed rows stay as they were.
commit_torn(committed, written, fault) == written
commit(committed, written, fault) ==
    IF fault = "commit" THEN committed ELSE written

\* increment_win_count(username) on the committed rows: the rows it leaves
\* and the exception it raises ("none" when it returns).
increment_win_count_nocase(rows, username, fault) ==
    IF fault \in {"connect", "select"}
        THEN [rows |-> rows, raised |-> "OperationalError"]
    ELSE
        LET key == IF username = <<"A">> THEN <<"a">> ELSE username
            row == SelectWins(rows, key)
            written == IF row = <<>>
                          THEN Insert(rows, key, 1)
                          ELSE Update(rows, new_count(row), key)
        IN  IF fault = "write"
                THEN [rows |-> rows, raised |-> "OperationalError"]
            ELSE IF written.error # "none"
                THEN [rows |-> rows, raised |-> written.error]
            ELSE [rows |-> commit(rows, written.rows, fault),
                  raised |-> IF fault = "commit"
                                THEN "OperationalError" ELSE "none"]
increment_win_count(rows, username, fault) ==
    IF fault \in {"connect", "select"}
        THEN [rows |-> rows, raised |-> "OperationalError"]
    ELSE
        LET row == SelectWins(rows, username)
            written == IF row = <<>>
                          THEN Insert(rows, username, 1)
                          ELSE Update(rows, new_count(row), username)
        IN  IF fault = "write"
                THEN [rows |-> rows, raised |-> "OperationalError"]
            ELSE IF written.error # "none"
                THEN [rows |-> rows, raised |-> written.error]
            ELSE [rows |-> commit(rows, written.rows, fault),
                  raised |-> IF fault = "commit"
                                THEN "OperationalError" ELSE "none"]

\* The sorter behind ORDER BY wins DESC takes one more row: it goes after
\* the rows of greater or equal wins already sorted.
RECURSIVE SorterInsert(_, _)
SorterInsert(sorted, row) ==
    IF sorted = <<>> THEN <<row>>
    ELSE IF Head(sorted).wins >= row.wins
        THEN <<Head(sorted)>> \o SorterInsert(Tail(sorted), row)
    ELSE <<row>> \o sorted

RECURSIVE OrderByWinsDesc(_, _)
OrderByWinsDesc(rows, sorted) ==
    IF rows = <<>> THEN sorted
    ELSE OrderByWinsDesc(Tail(rows), SorterInsert(sorted, Head(rows)))

\* get_leaderboard(): SELECT username, wins FROM winners ORDER BY wins DESC.
\* SQLite scans the table in rowid order and sorts on wins alone, so rows
\* of equal wins come out in the order they were inserted (SQL itself
\* leaves their order open).
get_leaderboard(rows) == OrderByWinsDesc(rows, <<>>)

\* The orders in which the rows of a table can be listed.
Orderings(rows) ==
    LET n == Len(rows)
        perms == {f \in [1..n -> 1..n] : \A i, j \in 1..n : f[i] = f[j] => i = j}
    IN  {[i \in 1..n |-> rows[f[i]]] : f \in perms}

-----------------------------------------------------------------------------
(* The handlers. *)

Reply(text, mode) == [text |-> text, parse_mode |-> mode]

\* f"Counted a Catan win for {mention_text}!"
WinReply(mention_text) ==
    Reply(<<"Counted a Catan win for ">> \o mention_text \o <<"!">>, "none")

\* if not message.photo: return
no_photo_ignored(msg) == FALSE
no_photo(msg) == ~msg.photo

\* for entity in message.caption_entities: if entity.type == "mention": ...
\* break -- the index of the entity the loop stops at, 0 when it runs out.
RECURSIVE scan_entities_last(_, _)
scan_entities_last(entities, i) ==
    IF i > Len(entities) THEN 0
    ELSE LET later == scan_entities_last(entities, i + 1)
         IN  IF later # 0 THEN later
             ELSE IF entities[i].type = "mention" THEN i ELSE 0
RECURSIVE scan_entities(_, _)
scan_entities(entities, i) ==
    IF i > Len(entities) THEN 0
    ELSE IF entities[i].type = "mention" THEN i
    ELSE scan_entities(entities, i + 1)

\* await message.reply_text(...) after increment_win_count returned: an
\* exception raised by the store leaves the handler before the reply.
reply_after_always(result, mention_text) == <<WinReply(mention_text)>>
reply_after(result, mention_text) ==
    IF result.raised = "none" THEN <<WinReply(mention_text)>> ELSE <<>>

\* message_handler on one message: the rows it leaves, its replies, the
\* exception that leaves it, and the username it called
\* increment_win_count for (<<>> when it made no call).
message_handler(rows, msg, fault) ==
    LET silent == [rows |-> rows, replies |-> <<>>, raised |-> "none",
                   called |-> <<>>]
    IN  IF no_photo(msg) THEN silent
        ELSE IF msg.caption_entities = <<>> THEN silent
        ELSE
            LET i == scan_entities(msg.caption_entities, 1) IN
            IF i = 0 THEN silent
            ELSE
                LET mention_text == MentionText(msg.caption, msg.caption_entities[i])
                    username == lstrip(mention_text)
                    result == increment_win_count(rows, username, fault)
                IN  [rows |-> result.rows,
                     replies |-> reply_after(result, mention_text),
                     raised |-> result.raised,
                     called |-> <<username>>]

\* start_command: one fixed reply.
start_command == <<Reply(<<"Hello! I will track who wins Catan in this chat.">>, "none")>>

Digit(d) ==
    CASE d = 0 -> "0" [] d = 1 -> "1" [] d = 2 -> "2" [] d = 3 -> "3"
      [] d = 4 -> "4" [] d = 5 -> "5" [] d = 6 -> "6" [] d = 7 -> "7"
      [] d = 8 -> "8" [] d = 9 -> "9"

\* str(wins) for wins >= 0
RECURSIVE Decimal(_)
Decimal(n) ==
    IF n < 10 THEN <<Digit(n)>> ELSE Decimal(n \div 10) \o <<Digit(n % 10)>>

\* f"@{username}: {wins}"
leaderboard_line(row) == <<"@">> \o row.username \o <<":", " ">> \o Decimal(row.wins)

\* "\n".join(leaderboard_lines)
RECURSIVE Join(_)
Join(lines) ==
    IF lines = <<>> THEN <<>>
    ELSE IF Len(lines) = 1 THEN lines[1]
    ELSE lines[1] \o <<"\n">> \o Join(Tail(lines))

\* stats_command on the rows get_leaderboard returned.
stats_command_no_return(rows) ==
    (IF rows = <<>> THEN <<Reply(<<"No wins recorded yet!">>, "none")>> ELSE <<>>)
    \o <<Reply(<<"**Catan Wins Leaderboard**", "\n">>
                 \o Join([i \in 1..Len(rows) |-> leaderboard_line(rows[i])]),
               "Markdown")>>
stats_command(rows) ==
    IF rows = <<>>
        THEN <<Reply(<<"No wins recorded yet!">>, "none")>>
        ELSE <<Reply(<<"**Catan Wins Leaderboard**", "\n">>
                       \o Join([i \in 1..Len(rows) |-> leaderboard_line(rows[i])]),
                     "Markdown")>>

-----------------------------------------------------------------------------
(* The bot process: main() initialises the database, then the dispatcher   *)
(* takes one update at a time and runs the handler that matches it.        *)

Procs == {"p1", "p2"}

NoProc == "none"

IdleConn == [pc |-> "idle", username |-> <<>>, row |-> <<>>, written |-> <<>>]

Init ==
    /\ hasTable = FALSE
    /\ winners = <<>>
    /\ pc = "stopped"
    /\ update = NoUpdate
    /\ failure = "none"
    /\ replies = <<>>
    /\ raised = "none"
    /\ leaderboard = <<>>
    /\ deliveries = 0
    /\ calls = [u \in Usernames |-> 0]
    /\ started = [u \in Usernames |-> 0]
    /\ conn = [p \in Procs |-> IdleConn]
    /\ lock = NoProc

\* main(), line 139: init_db().
main_init_db ==
    /\ pc = "stopped"
    /\ LET db == init_db(hasTable, winners)
       IN  /\ hasTable' = db.hasTable
           /\ winners' = db.rows
    /\ pc' = "init"
    /\ UNCHANGED <<update, failure, replies, raised, leaderboard, calls, started,
                   conn, lock,
                   deliveries>>

\* main(), lines 141-154: the handlers are registered and polling starts.
main_run_polling ==
    /\ pc = "init"
    /\ pc' = "idle"
    /\ UNCHANGED <<hasTable, winners, update, failure, replies, raised, leaderboard,
                   calls, started, conn, lock,
                   deliveries>>

\* The process stops (and is started again by main).
Stop ==
    /\ pc # "stopped"
    /\ pc' = "stopped"
    /\ update' = NoUpdate
    /\ failure' = "none"
    /\ replies' = <<>>
    /\ raised' = "none"
    /\ leaderboard' = <<>>
    /\ deliveries' = 0
    /\ UNCHANGED <<hasTable, winners, calls, started, conn, lock>>

\* The dispatcher takes the next update from the transport; the store is
\* sound or fails at one place while the update is handled.
Fetch ==
    /\ pc = "idle"
    /\ \E u \in Messages \cup Commands :
          /\ u.kind = "message" => TotalWins(winners) < MaxWins
          /\ update' = u
    /\ failure' \in Faults
    /\ pc' = "dispatch"
    /\ replies' = <<>>
    /\ raised' = "none"
    /\ leaderboard' = <<>>
    /\ deliveries' = 1
    /\ UNCHANGED <<hasTable, winners, calls, started, conn, lock>>

Bump(f, called) ==
    IF called = <<>> THEN f ELSE [f EXCEPT ![called[1]] = @ + 1]

\* MessageHandler(filters.ALL, message_handler)
OnMessage ==
    /\ pc = "dispatch"
    /\ update.kind = "message"
    /\ LET r == message_handler(winners, update, failure)
       IN  /\ winners' = r.rows
           /\ replies' = r.replies
           /\ raised' = r.raised
           /\ calls' = IF r.raised = "none" THEN Bump(calls, r.called) ELSE calls
    /\ pc' = "handled"
    /\ UNCHANGED <<hasTable, update, failure, leaderboard, started, conn, lock,
                   deliveries>>

\* CommandHandler("start", start_command)
OnStart ==
    /\ pc = "dispatch"
    /\ update.kind = "start"
    /\ replies' = start_command
    /\ pc' = "handled"
    /\ UNCHANGED <<hasTable, winners, update, failure, raised, leaderboard, calls,
                   started, conn, lock,
                   deliveries>>

\* CommandHandler("stats", stats_command): get_leaderboard() opens the file
\* and runs one SELECT; an exception it raises leaves the handler before
\* any reply.
OnStats ==
    /\ pc = "dispatch"
    /\ update.kind = "stats"
    /\ IF failure \in {"connect", "select"}
          THEN /\ raised' = "OperationalError"
               /\ UNCHANGED <<leaderboard, replies>>
          ELSE LET rows == get_leaderboard(winners)
               IN  /\ leaderboard' = rows
                   /\ replies' = stats_command(rows)
                   /\ raised' = "none"
    /\ pc' = "handled"
    /\ UNCHANGED <<hasTable, winners, update, failure, calls, started, conn, lock,
                   deliveries>>

\* The dispatcher is done with the update (an exception that left the
\* handler has been logged) and waits for the next one.
Done ==
    /\ pc = "handled"
    /\ pc' = "idle"
    /\ update' = NoUpdate
    /\ failure' = "none"
    /\ replies' = <<>>
    /\ raised' = "none"
    /\ leaderboard' = <<>>
    /\ deliveries' = 0
    /\ UNCHANGED <<hasTable, winners, calls, started, conn, lock>>

Next ==
    \/ main_init_db
    \/ main_run_polling
    \/ Stop
    \/ Fetch
    \/ OnMessage
    \/ OnStart
    \/ OnStats
    \/ Done

Spec == Init /\ [][Next]_vars

\* The transport delivers the message in hand once more (an edit of the
\* message is the same effective_message, and nothing records what has
\* been handled), the store being sound all along.
Redeliver ==
    /\ pc = "handled"
    /\ update.kind = "message"
    /\ deliveries < MaxDeliveries
    /\ TotalWins(winners) < MaxWins
    /\ failure = "none"
    /\ pc' = "dispatch"
    /\ replies' = <<>>
    /\ raised' = "none"
    /\ leaderboard' = <<>>
    /\ deliveries' = deliveries + 1
    /\ UNCHANGED <<hasTable, winners, update, failure, calls, started, conn, lock>>

NextRedeliver == Next \/ Redeliver

SpecRedeliver == Init /\ [][NextRedeliver]_vars

-----------------------------------------------------------------------------
(* Concurrent callers of increment_win_count, each on the connection it    *)
(* opens, one statement at a time.  Python's sqlite3 opens the transaction *)
(* before the INSERT or UPDATE, not before the SELECT, so the SELECT reads *)
(* the committed rows without holding a lock; the INSERT or UPDATE takes   *)
(* SQLite's write lock and conn.commit() releases it.                      *)

RECURSIVE Sum(_, _)
Sum(f, S) ==
    IF S = {} THEN 0
    ELSE LET x == CHOOSE y \in S : TRUE IN f[x] + Sum(f, S \ {x})

InitConc ==
    /\ hasTable = TRUE
    /\ winners = <<>>
    /\ pc = "idle"
    /\ update = NoUpdate
    /\ failure = "none"
    /\ replies = <<>>
    /\ raised = "none"
    /\ leaderboard = <<>>
    /\ deliveries = 0
    /\ calls = [u \in Usernames |-> 0]
    /\ started = [u \in Usernames |-> 0]
    /\ conn = [p \in Procs |-> IdleConn]
    /\ lock = NoProc

\* conn = sqlite3.connect(DATABASE_FILE)
Call(p) ==
    /\ conn[p].pc = "idle"
    /\ Sum(started, Usernames) < MaxCalls
    /\ \E u \in Usernames :
          /\ conn' = [conn EXCEPT ![p] = [IdleConn EXCEPT !.pc = "select",
                                                          !.username = u]]
          /\ started' = [started EXCEPT ![u] = @ + 1]
    /\ UNCHANGED <<hasTable, winners, pc, update, failure, replies, raised, leaderboard,
                   calls, lock,
                   deliveries>>

\* cursor.execute("SELECT wins ..."); row = cursor.fetchone()
SelectRow(p) ==
    /\ conn[p].pc = "select"
    /\ conn' = [conn EXCEPT ![p].pc = "write",
                            ![p].row = SelectWins(winners, conn[p].username)]
    /\ UNCHANGED <<hasTable, winners, pc, update, failure, replies, raised, leaderboard,
                   calls, started, lock,
                   deliveries>>

\* if row is None: INSERT ... else: UPDATE ... -- the statement waits for
\* the write lock (sqlite3.connect's default timeout; the holder's next
\* statement is its COMMIT).  A refused INSERT raises out of
\* increment_win_count, and the connection is dropped with its transaction.
Write(p) ==
    /\ conn[p].pc = "write"
    /\ lock = NoProc
    /\ LET u == conn[p].username
           row == conn[p].row
           written == IF row = <<>>
                         THEN Insert(winners, u, 1)
                         ELSE Update(winners, new_count(row), u)
       IN  IF written.error # "none"
              THEN /\ conn' = [conn EXCEPT ![p] = IdleConn]
                   /\ lock' = NoProc
              ELSE /\ conn' = [conn EXCEPT ![p].pc = "commit",
                                           ![p].written = written.rows]
                   /\ lock' = p
    /\ UNCHANGED <<hasTable, winners, pc, update, failure, replies, raised, leaderboard,
                   calls, started,
                   deliveries>>

\* conn.commit(); conn.close()
Commit(p) ==
    /\ conn[p].pc = "commit"
    /\ lock = p
    /\ winners' = commit(winners, conn[p].written, "none")
    /\ lock' = NoProc
    /\ calls' = [calls EXCEPT ![conn[p].username] = @ + 1]
    /\ conn' = [conn EXCEPT ![p] = IdleConn]
    /\ UNCHANGED <<hasTable, pc, update, failure, replies, raised, leaderboard,
                   started,
                   deliveries>>

\* get_leaderboard(), lines 71-74, by a caller that is not incrementing:
\* the SELECT reads the committed rows; what another connection has
\* written and not committed is not in them.
List(p) ==
    /\ conn[p].pc = "idle"
    /\ leaderboard = <<>>
    /\ leaderboard' = get_leaderboard(winners)
    /\ conn' = [conn EXCEPT ![p].pc = "listed"]
    /\ UNCHANGED <<hasTable, winners, pc, update, failure, replies, raised,
                   deliveries, calls, started, lock>>

\* get_leaderboard(), lines 75-76: conn.close(); return rows
ListReturn(p) ==
    /\ conn[p].pc = "listed"
    /\ leaderboard' = <<>>
    /\ conn' = [conn EXCEPT ![p] = IdleConn]
    /\ UNCHANGED <<hasTable, winners, pc, update, failure, replies, raised,
                   deliveries, calls, started, lock>>

NextConc ==
    \E p \in Procs :
        \/ Call(p)
        \/ SelectRow(p)
        \/ Write(p)
        \/ Commit(p)
        \/ List(p)
        \/ ListReturn(p)

SpecConc == InitConc /\ [][NextConc]_vars

-----------------------------------------------------------------------------
(* What the properties below speak of. *)

Alice == <<"a", "l", "i", "c", "e">>

AliceBang == <<"a", "l", "i", "c", "e", "!">>

\* The step in which message_handler handles the current update.
HandlesMessage ==
    /\ pc = "dispatch"
    /\ update.kind = "message"
    /\ pc' = "handled"

\* The current update is a message that has been handled.
HandledMessage ==
    /\ pc = "handled"
    /\ update.kind = "message"

MentionIndexes(m) ==
    {i \in 1..Len(m.caption_entities) : m.caption_entities[i].type = "mention"}

Least(S) == CHOOSE i \in S : \A j \in S : i <= j

\* The first entity of kind "mention" of a message that has one.
FirstMention(m) == m.caption_entities[Least(MentionIndexes(m))]

\* The message yields no detection: no photo, or no entity of kind "mention".
NoDetection(m) == ~m.photo \/ MentionIndexes(m) = {}

\* An entity whose span [offset, offset + length) lies inside the caption.
InBounds(m, e) == e.offset + e.length <= Len(m.caption)

\* A text with one leading "@" removed, if it has one.
StripOneSigil(t) == IF t # <<>> /\ Head(t) = "@" THEN Tail(t) ELSE t

\* Between this state and the next, exactly the count of u rose, by one.
CountedOnce(u) ==
    /\ Get(winners', u) = Get(winners, u) + 1
    /\ TotalWins(winners') = TotalWins(winners) + 1

AllReturned == \A p \in Procs : conn[p].pc = "idle"

-----------------------------------------------------------------------------
(* The properties. *)

\* C1: when increment operations that interleaved between their SELECT and
\* their write have all ended, none has failed and every one is applied:
\* the stored count of each username is the number of operations begun
\* for it.
ConcurrentIncrementsAllApplied ==
    AllReturned =>
        \A u \in Usernames :
            /\ calls[u] = started[u]
            /\ Get(winners, u) = started[u]

\* C2: from a store without records, after n increment calls for a username
\* have returned, one after the other, its stored count is n.
CountIsNumberOfIncrements ==
    \A u \in Usernames : Get(winners, u) = calls[u]

TwoIncrementsCounted ==
    \E u \in Usernames : calls[u] = 2 /\ Get(winners, u) = 2

\* C3: the listing the stats handler gets holds every stored row, by wins
\* descending and, among rows of equal wins, by username ascending.
LeaderboardTiesByUsername ==
    (pc = "handled" /\ update.kind = "stats" /\ raised = "none") =>
        /\ leaderboard \in Orderings(winners)
        /\ \A i \in 1..Len(leaderboard) : \A j \in 1..Len(leaderboard) :
              i < j =>
                 \/ leaderboard[i].wins > leaderboard[j].wins
                 \/ /\ leaderboard[i].wins = leaderboard[j].wins
                    /\ TextLess(leaderboard[i].username, leaderboard[j].username)

\* C4: handling a message that yields no detection leaves the store as it
\* was, raises nothing and emits no reply.
NoDetectionIsSilent ==
    [][(HandlesMessage /\ NoDetection(update)) =>
          /\ winners' = winners
          /\ hasTable' = hasTable
          /\ replies' = <<>>
          /\ raised' = "none"]_vars

NoPhotoMentionIgnored ==
    /\ HandledMessage
    /\ ~update.photo
    /\ MentionIndexes(update) # {}
    /\ replies = <<>>

\* C5: handling a message with a photo, when the store call returns, counts
\* at most one win: none and no reply without an entity of kind "mention",
\* else exactly one, for the username of the first such entity, with
\* exactly one reply.
FirstMentionCountedOnce ==
    [][(HandlesMessage /\ update.photo /\ raised' = "none") =>
          IF MentionIndexes(update) = {}
              THEN winners' = winners /\ replies' = <<>>
              ELSE /\ CountedOnce(lstrip(MentionText(update.caption,
                                                    FirstMention(update))))
                   /\ Len(replies') = 1]_vars

SecondMentionIgnored ==
    /\ HandledMessage
    /\ update.photo
    /\ Len(update.caption_entities) = 2
    /\ MentionIndexes(update) = {1, 2}
    /\ LET first == lstrip(MentionText(update.caption, update.caption_entities[1]))
           second == lstrip(MentionText(update.caption, update.caption_entities[2]))
       IN  /\ first # second
           /\ Get(winners, first) = 1
           /\ Get(winners, second) = 0
    /\ Len(replies) = 1

\* C6: stopping the process and running init_db on the existing storage
\* keep every row and its count; init_db never drops the table.
RestartKeepsCounts ==
    [][(pc = "stopped" \/ pc' = "stopped") =>
          /\ winners' = winners
          /\ hasTable => hasTable']_vars

CountsAfterRestart ==
    /\ pc = "init"
    /\ \E u \in Usernames : calls[u] = 2
    /\ \A u \in Usernames : Get(winners, u) = calls[u]

\* C7: when the store fails while a win report is handled, the exception
\* leaves the handler, the store is as it was and no reply is emitted.
StoreFailureLeavesNoTrace ==
    [][(HandlesMessage /\ ~NoDetection(update) /\ failure # "none") =>
          /\ raised' = "OperationalError"
          /\ winners' = winners
          /\ hasTable' = hasTable
          /\ replies' = <<>>]_vars

CommitFailureHandled ==
    /\ HandledMessage
    /\ ~NoDetection(update)
    /\ failure = "commit"
    /\ raised = "OperationalError"
    /\ winners # <<>>
    /\ replies = <<>>

\* C8: a mention entity whose span leaves the caption is skipped without an
\* error: the win is counted for the first mention entity whose span lies
\* inside the caption, and for none when there is no such entity.
OutOfBoundsMentionSkipped ==
    [][(HandlesMessage /\ update.photo /\ failure = "none") =>
          LET inside == {i \in MentionIndexes(update) :
                            InBounds(update, update.caption_entities[i])}
          IN  /\ raised' = "none"
              /\ IF inside = {}
                    THEN winners' = winners /\ replies' = <<>>
                    ELSE /\ CountedOnce(lstrip(MentionText(update.caption,
                                   update.caption_entities[Least(inside)])))
                         /\ Len(replies') = 1]_vars

\* C9: the username counted for a mention is the caption text the entity
\* spans with exactly one leading "@" removed, if it has one.
OneSigilStripped ==
    [][(HandlesMessage /\ ~NoDetection(update) /\ failure = "none") =>
          CountedOnce(StripOneSigil(MentionText(update.caption,
                                                FirstMention(update))))]_vars

\* C10, as stated: for the photo message with caption "Great game @alice!"
\* and the one entity {mention, offset 12, length 6}, the record "alice" is
\* the one incremented.
GreatGameCountsAlice ==
    [][(/\ HandlesMessage
        /\ update.photo
        /\ update.caption = GreatGame
        /\ update.caption_entities = <<Mention(12, 6)>>
        /\ failure = "none") => CountedOnce(Alice)]_vars

\* C10, amended: for the photo message with caption "Great game @alice!",
\* the one entity {mention, offset 12, length 6} spans "alice!" and the
\* record "alice!" is the one incremented; the record "alice" is the one
\* incremented for the entity {mention, offset 11, length 6}, which spans
\* "@alice".
GreatGameCountsSpannedText ==
    [][(/\ HandlesMessage
        /\ update.photo
        /\ update.caption = GreatGame
        /\ failure = "none") =>
          /\ update.caption_entities = <<Mention(12, 6)>> => CountedOnce(AliceBang)
          /\ update.caption_entities = <<Mention(11, 6)>> => CountedOnce(Alice)]_vars

GreatGameHandled ==
    /\ HandledMessage
    /\ update.photo
    /\ update.caption = GreatGame
    /\ update.caption_entities = <<Mention(12, 6)>>
    /\ raised = "none"
    /\ Get(winners, AliceBang) = 1
    /\ Get(winners, Alice) = 0
    /\ Len(replies) = 1

\* The username message_handler counts a win for, for a message with a
\* mention entity.
FirstUsername(m) == lstrip(MentionText(m.caption, FirstMention(m)))

\* No two rows of a table have the same username.
UniqueUsernames(rows) ==
    \A i \in 1..Len(rows) : \A j \in 1..Len(rows) :
        rows[i].username = rows[j].username => i = j

\* C11: handling a message changes neither the count nor the presence of
\* the row of any username other than the one it counts a win for;
\* usernames that differ only in case are different usernames.
IncrementLeavesOthers ==
    [][HandlesMessage =>
          \A y \in Usernames :
              (NoDetection(update) \/ y # FirstUsername(update))
                  => SelectWins(winners', y) = SelectWins(winners, y)]_vars

CaseKeptApart ==
    /\ HandledMessage
    /\ ~NoDetection(update)
    /\ FirstUsername(update) = <<"A">>
    /\ raised = "none"
    /\ Get(winners, <<"A">>) = 1
    /\ Get(winners, <<"a">>) = 1

\* C12: whatever the interleaving of the store calls, every step leaves
\* at most one row per username, a row only for a username with a
\* committed increment, every count an integer of at least 1, no count
\* lower than before and no row removed.
StoreInvariantsHold ==
    [][/\ UniqueUsernames(winners')
       /\ \A i \in 1..Len(winners') :
              /\ winners'[i].wins \in Nat
              /\ winners'[i].wins >= 1
              /\ calls'[winners'[i].username] >= 1
       /\ \A u \in Usernames :
              /\ Get(winners', u) >= Get(winners, u)
              /\ SelectWins(winners, u) # <<>> => SelectWins(winners', u) # <<>>]_vars

\* C13: a message is answered only when the increment for it was
\* committed: the handler that replies has counted exactly one win, for
\* the username of the first mention, and its one reply holds the text
\* the mention spans, leading "@" included.
ReplyFollowsCommittedIncrement ==
    [][(HandlesMessage /\ replies' # <<>>) =>
          /\ ~NoDetection(update)
          /\ failure = "none"
          /\ raised' = "none"
          /\ CountedOnce(FirstUsername(update))
          /\ replies' =
                <<[text |-> <<"Counted a Catan win for ">>
                              \o MentionText(update.caption, FirstMention(update))
                              \o <<"!">>,
                   parse_mode |-> "none"]>>]_vars

ReplyCarriesSigil ==
    /\ HandledMessage
    /\ update.caption = UpperCase
    /\ raised = "none"
    /\ Get(winners, <<"A">>) = 1
    /\ replies = <<[text |-> <<"Counted a Catan win for ", "@", "A", "!">>,
                    parse_mode |-> "none"]>>

\* C14: the stats reply is "No wins recorded yet!" exactly when the table
\* has no row; otherwise it is the header followed by one line
\* "@{username}: {wins}" per row, the rows by wins descending and, among
\* rows of equal wins, by username ascending.
StatsReplyInListingOrder ==
    (pc = "handled" /\ update.kind = "stats" /\ raised = "none") =>
        /\ Len(replies) = 1
        /\ replies[1].text = <<"No wins recorded yet!">> <=> winners = <<>>
        /\ winners # <<>> =>
              \E rows \in Orderings(winners) :
                  /\ \A i \in 1..Len(rows) : \A j \in 1..Len(rows) :
                        i < j =>
                           \/ rows[i].wins > rows[j].wins
                           \/ /\ rows[i].wins = rows[j].wins
                              /\ TextLess(rows[i].username, rows[j].username)
                  /\ replies[1].text =
                        <<"**Catan Wins Leaderboard**", "\n">>
                        \o Join([i \in 1..Len(rows) |->
                                   <<"@">> \o rows[i].username \o <<":", " ">>
                                   \o Decimal(rows[i].wins)])

\* The step in which connection p reads the leaderboard.
Lists(p) == conn[p].pc = "idle" /\ conn'[p].pc = "listed"

\* C15: a leaderboard read, whatever the increments in progress on other
\* connections, returns at most one row per username, no row with a
\* count below 1 and, for each username, the committed count or the count
\* the increment in progress has written (1 when there was no row).
ReadSeesCommittedCounts ==
    [][\A p \in Procs : Lists(p) =>
          /\ UniqueUsernames(leaderboard')
          /\ \A i \in 1..Len(leaderboard') : leaderboard'[i].wins >= 1
          /\ \A u \in Usernames :
                \/ SelectWins(leaderboard', u) = SelectWins(winners, u)
                \/ \E q \in Procs \ {p} :
                      /\ lock = q
                      /\ conn[q].username = u
                      /\ SelectWins(leaderboard', u) = SelectWins(conn[q].written, u)
          /\ \A q \in Procs \ {p} :
                (lock = q /\ conn[q].row = <<>> /\ conn[q].pc = "commit") =>
                    Get(conn[q].written, conn[q].username) = 1]_vars

ReadDuringIncrement ==
    \E p \in Procs : \E q \in Procs \ {p} :
        /\ conn[p].pc = "listed"
        /\ lock = q
        /\ conn[q].pc = "commit"
        /\ Get(winners, conn[q].username) = 1
        /\ Get(conn[q].written, conn[q].username) = 2
        /\ Get(leaderboard, conn[q].username) = 1

\* C16: when the text the first mention spans is empty once a leading "@"
\* is removed, the message is still a win report: the count of the empty
\* username rises by one and one reply is sent.
EmptyUsernameCounted ==
    [][(/\ HandlesMessage
        /\ ~NoDetection(update)
        /\ failure = "none"
        /\ StripOneSigil(MentionText(update.caption, FirstMention(update))) = <<>>) =>
          /\ raised' = "none"
          /\ CountedOnce(<<>>)
          /\ Len(replies') = 1]_vars

EmptyUsernameRecorded ==
    /\ HandledMessage
    /\ ~NoDetection(update)
    /\ MentionText(update.caption, FirstMention(update)) = <<"@">>
    /\ Get(winners, <<>>) = 1
    /\ calls[<<>>] = 1
    /\ replies = <<[text |-> <<"Counted a Catan win for ", "@", "!">>,
                    parse_mode |-> "none"]>>

\* C17: handling /start or /stats leaves the table and every row as they
\* were, and unless the store call of /stats raises, sends exactly one
\* reply.
CommandsLeaveStore ==
    [][(pc = "dispatch" /\ update.kind \in {"start", "stats"} /\ pc' = "handled") =>
          /\ winners' = winners
          /\ hasTable' = hasTable
          /\ calls' = calls
          /\ raised' = "none" => Len(replies') = 1]_vars

StatsHandledStoreKept ==
    /\ pc = "handled"
    /\ update.kind = "stats"
    /\ raised = "none"
    /\ Len(winners) = 2
    /\ Len(replies) = 1
    /\ replies[1].parse_mode = "Markdown"

\* C18: a message delivered again is handled as if it were new: each
\* further delivery of a win report counts one more win for the username
\* of its first mention and sends one more reply.
RedeliveryCountsAgain ==
    [][(/\ HandlesMessage
        /\ deliveries >= 2
        /\ ~NoDetection(update)
        /\ failure = "none") =>
          /\ raised' = "none"
          /\ CountedOnce(FirstUsername(update))
          /\ Len(replies') = 1]_vars

DeliveredTwiceCountedTwice ==
    /\ HandledMessage
    /\ deliveries = 2
    /\ ~NoDetection(update)
    /\ failure = "none"
    /\ Get(winners, FirstUsername(update)) = 2
    /\ calls[FirstUsername(update)] = 2
    /\ Len(replies) = 1

=============================================================================
